---- MODULE Spec2Model ----
(***************************************************************************)
(* Model of my_copy.c: a file copier built on the system calls access,     *)
(* open, read, write and close, with a y/n confirmation loop on stdin when *)
(* the destination already exists.                                         *)
(*                                                                         *)
(* The program is one sequential main(); pc is its position, and there is  *)
(* one action per system call (or per branch evaluation) of main.  The     *)
(* environment decides the outcome of every system call: which byte stdin  *)
(* delivers, whether a call fails, how many bytes a read or write moves.   *)
(*                                                                         *)
(* A byte array (file content, the transfer buffer) is kept run-length     *)
(* encoded: a sequence of runs [b |-> byte, n |-> count], always in the    *)
(* normal form where no run is empty and adjacent runs differ in their     *)
(* byte, so that two arrays are equal iff their encodings are equal.       *)
(***************************************************************************)
EXTENDS Integers, Sequences, FiniteSets, TLC

BUFFER_SIZE == 4096

\* Bounds of the explored inputs.
MaxChunks == 2
MaxIn == 4
MaxCycles == 3
MaxShortReads == 1

VARIABLES
    argc,              \* argument count, program name included
    dstFile,           \* the file argv[2] names: "d", or "s" when it names the source
    fsExists,          \* file system: which files exist
    fsData,            \* file system: content of each file
    exists0, data0,    \* the file system as it was before the run
    stdin, pos,        \* bytes the input stream holds, and the next one to deliver
    pc,                \* position in main
    response,          \* char response (line 83); "?" while uninitialised
    prompt_bytes_read, \* ssize_t bytes_read of line 92
    cycles,            \* completed iterations of the confirmation loop
    source_fd, dest_fd,\* "unset", "-1" (open failed) or "open"
    srcOff, dstOff,    \* file offsets of the two descriptors
    buffer,            \* char buffer[BUFFER_SIZE]
    bytes_read,        \* ssize_t bytes_read of line 181
    bytes_written,     \* ssize_t bytes_written of line 196
    closeCalls,        \* close() calls issued on each descriptor
    out, err,          \* messages written to stdout and stderr
    exitStatus,        \* <<>> while running, <<status>> once main returned
    faults,            \* system calls that failed so far
    stdinReads,        \* read() calls issued on stdin
    readCalls,         \* read() calls issued on the source
    writeReqs,         \* sizes requested by the write() calls on the destination
    shortReads         \* source reads that returned less than was available

vars == <<argc, dstFile, fsExists, fsData, exists0, data0, stdin, pos, pc,
          response, prompt_bytes_read, cycles, source_fd, dest_fd, srcOff,
          dstOff, buffer, bytes_read, bytes_written, closeCalls, out, err,
          exitStatus, faults, stdinReads, readCalls, writeReqs, shortReads>>

Min(a, b) == IF a <= b THEN a ELSE b

----------------------------------------------------------------------------
\* Byte arrays, run-length encoded.

RECURSIVE CLen(_)
CLen(c) == IF c = <<>> THEN 0 ELSE Head(c).n + CLen(Tail(c))

RECURSIVE CNorm(_)
CNorm(c) ==
    IF c = <<>> THEN <<>>
    ELSE IF Head(c).n = 0 THEN CNorm(Tail(c))
    ELSE LET r == CNorm(Tail(c)) IN
         IF r # <<>> /\ Head(r).b = Head(c).b
         THEN <<[b |-> Head(c).b, n |-> Head(c).n + Head(r).n]>> \o Tail(r)
         ELSE <<Head(c)>> \o r

\* The first k bytes of c.
RECURSIVE CTake(_, _)
CTake(c, k) ==
    IF k <= 0 \/ c = <<>> THEN <<>>
    ELSE IF Head(c).n <= k THEN <<Head(c)>> \o CTake(Tail(c), k - Head(c).n)
    ELSE <<[b |-> Head(c).b, n |-> k]>>

\* c without its first k bytes.
RECURSIVE CDrop(_, _)
CDrop(c, k) ==
    IF k <= 0 \/ c = <<>> THEN c
    ELSE IF Head(c).n <= k THEN CDrop(Tail(c), k - Head(c).n)
    ELSE <<[b |-> Head(c).b, n |-> Head(c).n - k]>> \o Tail(c)

CCat(a, b) == CNorm(a \o b)

CRun(byte, k) == CNorm(<<[b |-> byte, n |-> k]>>)

\* Content c after d was written at offset off (off <= CLen(c) here).
WriteAt(c, off, d) == CCat(CCat(CTake(c, off), d), CDrop(c, off + CLen(d)))

----------------------------------------------------------------------------
\* Inputs.

\* A source of s bytes: BUFFER_SIZE blocks alternating between two bytes.
Pattern(s) ==
    CNorm([k \in 1..((s + BUFFER_SIZE - 1) \div BUFFER_SIZE) |->
            [b |-> IF k % 2 = 1 THEN "A" ELSE "B",
             n |-> Min(BUFFER_SIZE, s - (k - 1) * BUFFER_SIZE)]])

SrcSizes == {k * BUFFER_SIZE + d : k \in 0..MaxChunks, d \in {0, 1}}
SrcContents == {Pattern(s) : s \in SrcSizes}

\* What a pre-existing destination holds: shorter or longer than any source.
DstContents == {CRun("D", 3), CRun("D", (MaxChunks + 1) * BUFFER_SIZE)}

Chars == {"y", "Y", "n", "N", "x", "\n"}
Uninit == "?"

\* One answer line, or nothing at all.
ShortInputs == {<<>>} \cup {<<c, "\n">> : c \in Chars}
\* Every input of at most MaxIn bytes.
LongInputs == UNION {[1..k -> Chars] : k \in 0..MaxIn}

Files == {"s", "d"}
srcFile == "s"

\* The buffer is an uninitialised automatic array: BUFFER_SIZE bytes of junk.
JunkBuffer == CRun("J", BUFFER_SIZE)

InitProgram ==
    /\ pc = "start"
    /\ pos = 1
    /\ response = Uninit
    /\ prompt_bytes_read = 0
    /\ cycles = 0
    /\ source_fd = "unset" /\ dest_fd = "unset"
    /\ srcOff = 0 /\ dstOff = 0
    /\ buffer = JunkBuffer
    /\ bytes_read = 0 /\ bytes_written = 0
    /\ closeCalls = [h \in {"src", "dst"} |-> 0]
    /\ out = <<>> /\ err = <<>>
    /\ exitStatus = <<>>
    /\ faults = {}
    /\ stdinReads = 0 /\ readCalls = 0 /\ writeReqs = <<>> /\ shortReads = 0

\* Every file layout, with at most one answer line on stdin.
InitCopyInputs ==
    /\ argc \in 1..4
    /\ stdin \in ShortInputs
    /\ \E srcThere \in BOOLEAN, sc \in SrcContents :
         \/ /\ dstFile = "s"
            /\ fsExists = [f \in Files |-> IF f = "s" THEN srcThere ELSE FALSE]
            /\ fsData = [f \in Files |-> IF f = "s" /\ srcThere THEN sc ELSE <<>>]
         \/ /\ dstFile = "d"
            /\ \E dstThere \in BOOLEAN, dc \in DstContents :
                 /\ fsExists = [f \in Files |-> IF f = "s" THEN srcThere ELSE dstThere]
                 /\ fsData = [f \in Files |->
                                IF f = "s" THEN (IF srcThere THEN sc ELSE <<>>)
                                ELSE (IF dstThere THEN dc ELSE <<>>)]

\* Every input stream of at most MaxIn bytes, with one file layout:
\* a one-byte source and an existing destination.
InitPromptInputs ==
    /\ argc = 3
    /\ stdin \in LongInputs
    /\ dstFile = "d"
    /\ fsExists = [f \in Files |-> TRUE]
    /\ fsData = [f \in Files |-> IF f = "s" THEN Pattern(1) ELSE CRun("D", 3)]

Init ==
    /\ InitProgram
    /\ (InitCopyInputs \/ InitPromptInputs)
    /\ exists0 = fsExists
    /\ data0 = fsData

----------------------------------------------------------------------------
\* Helpers of the actions.

Exit(status) == /\ pc' = "done"
                /\ exitStatus' = <<status>>

\* close(fd) was called once more on descriptor h.
Close(cc, h) == [cc EXCEPT ![h] = @ + 1]

IsAffirmative(c) == c \in {"y", "Y"}
IsNegativeLowerOnly(c) == c = "n"
IsNegative(c) == c \in {"n", "N"}

\* O_TRUNC: the content an existing file is left with by open().
TruncateKeeps(c) == c
Truncate(c) == <<>>

\* The size handed to write() for a chunk of br bytes (line 196).
WriteRequestBuffer(br) == BUFFER_SIZE
WriteRequest(br) == br

\* What read(source_fd, buffer, BUFFER_SIZE) may return with avail bytes left:
\* all it can, or (a bounded number of times) a single byte.
ReadSizes(avail) ==
    {Min(BUFFER_SIZE, avail)}
        \cup (IF shortReads < MaxShortReads /\ avail > 1 THEN {1} ELSE {})

\* What a short write of a req-byte request may return.
ShortWriteSizes(req) == {0, req - 1}

----------------------------------------------------------------------------
\* The steps of main().

inputVars == <<argc, dstFile, exists0, data0, stdin>>
fsVars == <<fsExists, fsData>>
promptVars == <<pos, response, prompt_bytes_read, cycles, stdinReads>>
copyVars == <<source_fd, dest_fd, srcOff, dstOff, buffer, bytes_read,
              bytes_written, closeCalls, readCalls, writeReqs, shortReads>>

\* Lines 45-49: the argument count.
CheckArgs ==
    /\ pc = "start"
    /\ IF argc # 3
       THEN /\ err' = Append(err, "usage")
            /\ Exit(1)
       ELSE /\ pc' = "access"
            /\ UNCHANGED <<err, exitStatus>>
    /\ UNCHANGED <<inputVars, fsVars, promptVars, copyVars, out, faults>>

\* Lines 67-77: access(dest_file, F_OK), and the prompt when it exists.
CheckDest ==
    /\ pc = "access"
    /\ IF fsExists[dstFile]
       THEN /\ out' = Append(out, "prompt")
            /\ pc' = "read_response"
       ELSE /\ pc' = "open_source"
            /\ UNCHANGED out
    /\ UNCHANGED <<inputVars, fsVars, promptVars, copyVars, err, exitStatus, faults>>

\* Lines 92-98: read(STDIN_FILENO, &response, 1) and its error check.
\* At end of input read() returns 0 and response keeps what it held, which
\* is an indeterminate value when nothing was ever read into it.
ReadResponse ==
    /\ pc = "read_response"
    /\ cycles < MaxCycles
    /\ cycles' = cycles + 1
    /\ stdinReads' = stdinReads + 1
    /\ \/ /\ prompt_bytes_read' = -1
          /\ faults' = faults \cup {"read_response"}
          /\ err' = Append(err, "input_error")
          /\ Exit(1)
          /\ UNCHANGED <<pos, response>>
       \/ /\ pos <= Len(stdin)
          /\ prompt_bytes_read' = 1
          /\ response' = stdin[pos]
          /\ pos' = pos + 1
          /\ pc' = "read_newline"
          /\ UNCHANGED <<faults, err, exitStatus>>
       \/ /\ pos > Len(stdin)
          /\ prompt_bytes_read' = 0
          /\ response' \in (IF response = Uninit THEN Chars ELSE {response})
          /\ pc' = "read_newline"
          /\ UNCHANGED <<pos, faults, err, exitStatus>>
    /\ UNCHANGED <<inputVars, fsVars, copyVars, out>>

\* Line 104: read(STDIN_FILENO, &newline, 1); its result is not looked at,
\* and newline is never read afterwards.
ReadNewline ==
    /\ pc = "read_newline"
    /\ stdinReads' = stdinReads + 1
    /\ \/ /\ faults' = faults \cup {"read_newline"}
          /\ UNCHANGED pos
       \/ /\ pos <= Len(stdin)
          /\ pos' = pos + 1
          /\ UNCHANGED faults
       \/ /\ pos > Len(stdin)
          /\ UNCHANGED <<pos, faults>>
    /\ pc' = "evaluate"
    /\ UNCHANGED <<inputVars, fsVars, copyVars, response, prompt_bytes_read,
                   cycles, out, err, exitStatus>>

\* Lines 109-114: 'y' or 'Y' ends the loop and goes on to the copy.
AnswerYes ==
    /\ IsAffirmative(response)
    /\ out' = Append(out, "proceeding")
    /\ pc' = "open_source"
    /\ UNCHANGED exitStatus

\* Lines 115-120: 'n' or 'N' returns 0.
AnswerNo ==
    /\ ~IsAffirmative(response) /\ IsNegative(response)
    /\ out' = Append(out, "cancelled")
    /\ Exit(0)

\* The loop's else branch as it would be with a give-up after a bad answer.
AnswerInvalidGivesUp ==
    /\ ~IsAffirmative(response) /\ ~IsNegative(response)
    /\ out' = Append(out, "reprompt")
    /\ Exit(1)

\* Lines 121-125: anything else re-prompts and loops.
AnswerInvalid ==
    /\ ~IsAffirmative(response) /\ ~IsNegative(response)
    /\ out' = Append(out, "reprompt")
    /\ pc' = "read_response"
    /\ UNCHANGED exitStatus

\* Lines 109-126: the if / else-if / else on response.
EvaluateResponse ==
    /\ pc = "evaluate"
    /\ (AnswerYes \/ AnswerNo \/ AnswerInvalid)
    /\ UNCHANGED <<inputVars, fsVars, promptVars, copyVars, err, faults>>

\* The failure branch of the source open as it would be without its return.
OpenSourceFailsNoReturn ==
    /\ source_fd' = "-1"
    /\ faults' = faults \cup {"open_source"}
    /\ err' = Append(err, "cannot_open_source")
    /\ pc' = "open_dest"
    /\ UNCHANGED exitStatus

\* Lines 139-147: open() returned -1 (no such file, or no permission).
OpenSourceFails ==
    /\ source_fd' = "-1"
    /\ faults' = faults \cup {"open_source"}
    /\ err' = Append(err, "cannot_open_source")
    /\ Exit(1)

\* Lines 137-147: open(source_file, O_RDONLY).
OpenSource ==
    /\ pc = "open_source"
    /\ \/ /\ fsExists[srcFile]
          /\ source_fd' = "open"
          /\ pc' = "open_dest"
          /\ UNCHANGED <<faults, err, exitStatus>>
       \/ OpenSourceFails
    /\ UNCHANGED <<inputVars, fsVars, promptVars, dest_fd, srcOff, dstOff, buffer,
                   bytes_read, bytes_written, closeCalls, readCalls, writeReqs,
                   shortReads, out>>

\* The failure branch of the destination open as it would be without close().
OpenDestFailsLeaks ==
    /\ dest_fd' = "-1"
    /\ faults' = faults \cup {"open_dest"}
    /\ err' = Append(err, "cannot_create_dest")
    /\ UNCHANGED closeCalls
    /\ Exit(1)
    /\ UNCHANGED fsVars

\* Lines 161-170: open() returned -1; the source is closed before returning.
OpenDestFails ==
    /\ dest_fd' = "-1"
    /\ faults' = faults \cup {"open_dest"}
    /\ err' = Append(err, "cannot_create_dest")
    /\ closeCalls' = Close(closeCalls, "src")
    /\ Exit(1)
    /\ UNCHANGED fsVars

\* Lines 159-170: open(dest_file, O_WRONLY | O_CREAT | O_TRUNC, 0644).
OpenDest ==
    /\ pc = "open_dest"
    /\ \/ /\ dest_fd' = "open"
          /\ fsExists' = [fsExists EXCEPT ![dstFile] = TRUE]
          /\ fsData' = [fsData EXCEPT ![dstFile] =
                           IF fsExists[dstFile] THEN Truncate(@) ELSE <<>>]
          /\ pc' = "read"
          /\ UNCHANGED <<faults, err, exitStatus, closeCalls>>
       \/ OpenDestFails
    /\ UNCHANGED <<inputVars, promptVars, source_fd, srcOff, dstOff, buffer,
                   bytes_read, bytes_written, readCalls, writeReqs, shortReads, out>>

\* Lines 189 and 222-228: one read(source_fd, buffer, BUFFER_SIZE) and the
\* loop condition on its result.
ReadChunk ==
    /\ pc = "read"
    /\ readCalls' = readCalls + 1
    /\ LET avail == CLen(fsData[srcFile]) - srcOff IN
       \/ /\ bytes_read' = -1
          /\ faults' = faults \cup {"read"}
          /\ err' = Append(err, "read_error")
          /\ closeCalls' = Close(Close(closeCalls, "src"), "dst")
          /\ Exit(1)
          /\ UNCHANGED <<srcOff, buffer, shortReads>>
       \/ /\ source_fd = "open"
          /\ avail <= 0
          /\ bytes_read' = 0
          /\ pc' = "close_source"
          /\ UNCHANGED <<srcOff, buffer, shortReads, faults, err, closeCalls, exitStatus>>
       \/ /\ source_fd = "open"
          /\ avail > 0
          /\ \E k \in ReadSizes(avail) :
               /\ bytes_read' = k
               /\ buffer' = CCat(CTake(CDrop(fsData[srcFile], srcOff), k),
                                 CDrop(buffer, k))
               /\ srcOff' = srcOff + k
               /\ shortReads' = IF k < Min(BUFFER_SIZE, avail)
                                THEN shortReads + 1 ELSE shortReads
          /\ pc' = "write"
          /\ UNCHANGED <<faults, err, closeCalls, exitStatus>>
    /\ UNCHANGED <<inputVars, fsVars, promptVars, source_fd, dest_fd, dstOff,
                   bytes_written, writeReqs, out>>

\* The short-write test as it would be if only -1 were checked.
IncompleteWriteIgnored(w, br) == FALSE
\* Line 210: bytes_written != bytes_read.
IncompleteWrite(w, br) == w # br

\* Lines 196-216: one write(dest_fd, buffer, bytes_read) and its two checks.
\* The call returns -1, or the number of bytes it moved: all of them or fewer.
WriteChunk ==
    /\ pc = "write"
    /\ LET req == WriteRequest(bytes_read) IN
       /\ writeReqs' = Append(writeReqs, req)
       /\ \/ /\ bytes_written' = -1
             /\ faults' = faults \cup {"write"}
             /\ err' = Append(err, "write_error")
             /\ closeCalls' = Close(Close(closeCalls, "src"), "dst")
             /\ Exit(1)
             /\ UNCHANGED <<fsData, dstOff>>
          \/ \E w \in {req} \cup ShortWriteSizes(req) :
               /\ bytes_written' = w
               /\ fsData' = [fsData EXCEPT ![dstFile] =
                                WriteAt(@, dstOff, CTake(buffer, w))]
               /\ dstOff' = dstOff + w
               /\ faults' = IF w < req THEN faults \cup {"short_write"} ELSE faults
               /\ IF IncompleteWrite(w, bytes_read)
                  THEN /\ err' = Append(err, "incomplete_write")
                       /\ closeCalls' = Close(Close(closeCalls, "src"), "dst")
                       /\ Exit(1)
                  ELSE /\ pc' = "read"
                       /\ UNCHANGED <<err, closeCalls, exitStatus>>
    /\ UNCHANGED <<inputVars, fsExists, promptVars, source_fd, dest_fd, srcOff,
                   buffer, bytes_read, readCalls, shortReads, out>>

\* Lines 233-238: close(source_fd); on failure the destination is closed too.
CloseSource ==
    /\ pc = "close_source"
    /\ \/ /\ faults' = faults \cup {"close_source"}
          /\ err' = Append(err, "close_source_error")
          /\ closeCalls' = Close(Close(closeCalls, "src"), "dst")
          /\ Exit(1)
       \/ /\ closeCalls' = Close(closeCalls, "src")
          /\ pc' = "close_dest"
          /\ UNCHANGED <<faults, err, exitStatus>>
    /\ UNCHANGED <<inputVars, fsVars, promptVars, source_fd, dest_fd, srcOff, dstOff,
                   buffer, bytes_read, bytes_written, readCalls, writeReqs,
                   shortReads, out>>

\* Lines 240-244: close(dest_fd).
CloseDest ==
    /\ pc = "close_dest"
    /\ closeCalls' = Close(closeCalls, "dst")
    /\ \/ /\ faults' = faults \cup {"close_dest"}
          /\ err' = Append(err, "close_dest_error")
          /\ Exit(1)
       \/ /\ pc' = "report"
          /\ UNCHANGED <<faults, err, exitStatus>>
    /\ UNCHANGED <<inputVars, fsVars, promptVars, source_fd, dest_fd, srcOff, dstOff,
                   buffer, bytes_read, bytes_written, readCalls, writeReqs,
                   shortReads, out>>

\* Lines 249-258: the success message, and return 0.
Report ==
    /\ pc = "report"
    /\ out' = Append(out, "success")
    /\ Exit(0)
    /\ UNCHANGED <<inputVars, fsVars, promptVars, copyVars, err, faults>>

Next ==
    \/ CheckArgs
    \/ CheckDest
    \/ ReadResponse
    \/ ReadNewline
    \/ EvaluateResponse
    \/ OpenSource
    \/ OpenDest
    \/ ReadChunk
    \/ WriteChunk
    \/ CloseSource
    \/ CloseDest
    \/ Report

Spec == Init /\ [][Next]_vars

----------------------------------------------------------------------------
\* Vocabulary of the properties.

Done == pc = "done"
FsUnchanged == fsExists = exists0 /\ fsData = data0
Written(q) == {q[i] : i \in 1..Len(q)}
Count(q, m) == Cardinality({i \in 1..Len(q) : q[i] = m})
ValidAnswers == {"y", "Y", "n", "N"}
InPrompt(p) == p \in {"read_response", "read_newline", "evaluate"}
StdinFaults == {"read_response", "read_newline"}
TransferFaults == {"read", "write", "short_write", "close_source", "close_dest"}
\* No answer evaluated so far was left over from an end of input.
AnswersWereRead == cycles = 0 \/ prompt_bytes_read # 0

\* Position of the k-th line terminator of stdin; 0 for k = 0.
NewlineAt(k) ==
    IF k = 0 THEN 0
    ELSE CHOOSE p \in 1..Len(stdin) :
           /\ stdin[p] = "\n"
           /\ Cardinality({q \in 1..p : stdin[q] = "\n"}) = k
HasLine(k) == Cardinality({q \in 1..Len(stdin) : stdin[q] = "\n"}) >= k
\* The k-th line of stdin, without its terminator.
Line(k) == SubSeq(stdin, NewlineAt(k - 1) + 1, NewlineAt(k) - 1)

----------------------------------------------------------------------------
\* C1, as stated: with an existing readable source and a destination that
\* does not exist, a run in which no read, write or close call fails (a short
\* write counted as a failed write) ends with the destination equal to the
\* source, exit status 0, and stdin never prompted or read.
C1_Original ==
    (/\ Done /\ argc = 3
     /\ exists0[srcFile] /\ "open_source" \notin faults
     /\ ~exists0[dstFile]
     /\ faults \cap TransferFaults = {})
    => (/\ exitStatus = <<0>>
        /\ fsExists[dstFile] /\ fsData[dstFile] = data0[srcFile]
        /\ stdinReads = 0 /\ "prompt" \notin Written(out))

\* C1, amended: the same, for the runs in which the destination could also
\* be created (its open did not fail).
C1_CopyToNewDestination ==
    (/\ Done /\ argc = 3
     /\ exists0[srcFile] /\ "open_source" \notin faults
     /\ ~exists0[dstFile] /\ "open_dest" \notin faults
     /\ faults \cap TransferFaults = {})
    => (/\ exitStatus = <<0>>
        /\ fsExists[dstFile] /\ fsData[dstFile] = data0[srcFile]
        /\ stdinReads = 0 /\ "prompt" \notin Written(out))

\* A source of an exact multiple of BUFFER_SIZE bytes (more than one chunk)
\* was copied to a new destination while an answer line waited on stdin.
C1_Witness ==
    /\ Done /\ exitStatus = <<0>>
    /\ ~exists0[dstFile]
    /\ CLen(data0[srcFile]) = MaxChunks * BUFFER_SIZE
    /\ fsData[dstFile] = data0[srcFile]
    /\ shortReads = 1
    /\ stdin # <<>> /\ stdinReads = 0

\* C2: once 'n' or 'N' was read as the answer and evaluated, the program has
\* exited with status 0, the file system is as it was before the run, and
\* neither file was ever opened, read or written.
C2_DeclineTouchesNothing ==
    (/\ exists0[dstFile]
     /\ prompt_bytes_read = 1 /\ response \in {"n", "N"}
     /\ pc \notin {"read_newline", "evaluate"})
    => (/\ Done /\ exitStatus = <<0>>
        /\ FsUnchanged
        /\ source_fd = "unset" /\ dest_fd = "unset"
        /\ readCalls = 0 /\ writeReqs = <<>>
        /\ closeCalls = [h \in {"src", "dst"} |-> 0])

\* The run was cancelled by an 'n' that came after a rejected answer.
C2_Witness ==
    /\ Done /\ exitStatus = <<0>>
    /\ response = "n" /\ prompt_bytes_read = 1
    /\ cycles >= 2 /\ "reprompt" \in Written(out)
    /\ "cancelled" \in Written(out)

\* C3, as stated: with an existing destination and the answer 'y' or 'Y'
\* read, a run without any I/O failure exits 0 and leaves the destination
\* equal to what the source held before the run, whichever files the two
\* paths name, the same file included.
C3_Original ==
    (/\ Done /\ exists0[dstFile]
     /\ prompt_bytes_read = 1 /\ response \in {"y", "Y"}
     /\ faults = {})
    => (/\ exitStatus = <<0>>
        /\ fsData[dstFile] = data0[srcFile])

\* C3, amended: when the two paths name different files the destination ends
\* equal to what the source held before the run; when they name the same
\* file, opening it as the destination truncates it and it ends empty.
C3_Overwrite ==
    (/\ Done /\ exists0[dstFile]
     /\ prompt_bytes_read = 1 /\ response \in {"y", "Y"}
     /\ faults = {})
    => (/\ exitStatus = <<0>>
        /\ fsExists[dstFile]
        /\ fsData[dstFile] = IF dstFile = srcFile THEN <<>> ELSE data0[srcFile])

\* A destination longer than the source was overwritten after a 'Y'.
C3_Witness ==
    /\ Done /\ exitStatus = <<0>>
    /\ dstFile # srcFile /\ exists0[dstFile]
    /\ response = "Y" /\ prompt_bytes_read = 1
    /\ CLen(data0[srcFile]) > BUFFER_SIZE
    /\ CLen(data0[dstFile]) > CLen(data0[srcFile])
    /\ fsData[dstFile] = data0[srcFile]

C5_OneLinePerCycle ==
    (pc = "evaluate" /\ faults = {} /\ HasLine(cycles))
    => (/\ pos = NewlineAt(cycles) + 1
        /\ (response \in ValidAnswers)
             <=> (Line(cycles) \in {<<c>> : c \in ValidAnswers})
        /\ (response \in ValidAnswers) => Line(cycles) = <<response>>)

\* C6: once the source open failed the program has exited with status 1 and
\* the file system is as it was before the run; the destination is never
\* opened unless the source open succeeded.
C6_SourceOpenFailure ==
    /\ ("open_source" \in faults)
         => (/\ Done /\ exitStatus = <<1>>
             /\ FsUnchanged
             /\ dest_fd = "unset" /\ writeReqs = <<>>)
    /\ (dest_fd # "unset") => (source_fd = "open")

\* The source could not be opened after the user had agreed to overwrite an
\* existing destination.
C6_Witness ==
    /\ Done /\ "open_source" \in faults
    /\ dstFile # srcFile /\ exists0[dstFile]
    /\ "proceeding" \in Written(out)
    /\ ~exists0[srcFile]
    /\ fsData[dstFile] = data0[dstFile]

\* C7: close is never called twice on a handle, nor on one that was not
\* opened; and at exit it was called exactly once on every opened handle.
C7_HandlesClosedOnce ==
    /\ closeCalls["src"] <= (IF source_fd = "open" THEN 1 ELSE 0)
    /\ closeCalls["dst"] <= (IF dest_fd = "open" THEN 1 ELSE 0)
    /\ Done => /\ closeCalls["src"] = (IF source_fd = "open" THEN 1 ELSE 0)
               /\ closeCalls["dst"] = (IF dest_fd = "open" THEN 1 ELSE 0)

\* The destination open failed with the source already open.
C7_Witness ==
    /\ Done /\ "open_dest" \in faults
    /\ source_fd = "open" /\ dest_fd = "-1"
    /\ closeCalls["src"] = 1 /\ closeCalls["dst"] = 0

\* The copy ran to completion: both files opened, every transfer call and
\* both closes succeeded.
CopyCompleted ==
    /\ source_fd = "open" /\ dest_fd = "open"
    /\ bytes_read = 0 /\ readCalls > 0
    /\ faults \cap TransferFaults = {}
    /\ closeCalls = [h \in {"src", "dst"} |-> 1]

\* C8: at exit the status is 0 exactly when the copy completed or the user
\* declined; an argument-count mismatch and every failed call (a read of the
\* confirmation included) give status 1; the success message is written once
\* on the completed-copy path and never otherwise.  Stated for the runs whose
\* answers were all bytes delivered by stdin.
C8_ExitStatus ==
    (Done /\ AnswersWereRead)
    => /\ (exitStatus = <<0>>)
            <=> (CopyCompleted \/ "cancelled" \in Written(out))
       /\ (argc # 3 \/ faults # {}) => exitStatus = <<1>>
       /\ Count(out, "success") = (IF CopyCompleted THEN 1 ELSE 0)
       /\ "success" \in Written(out) => out[Len(out)] = "success"

\* C9: once a read of stdin failed (the answer character or its terminator)
\* no file is ever opened, the loop does not go on, and the exit status is 1.
\* Stated for the runs whose answers were all bytes delivered by stdin.
C9_StdinFailureFatal ==
    (faults \cap StdinFaults # {} /\ AnswersWereRead)
    => (/\ pc \in {"evaluate", "done"}
        /\ source_fd = "unset" /\ dest_fd = "unset"
        /\ Done => exitStatus = <<1>>)

\* C10: every chunk read is 1..BUFFER_SIZE bytes and is followed by exactly
\* one write request of that size; once a write failed or was short the
\* program has exited with status 1 with no read or write after it, both
\* handles closed, and the destination holding what was written so far.
C10_ShortWriteFatal ==
    /\ (pc = "write") => /\ bytes_read \in 1..BUFFER_SIZE
                         /\ Len(writeReqs) = readCalls - 1
    /\ (pc = "read") => Len(writeReqs) = readCalls
    /\ (pc \in {"read", "close_source"} /\ writeReqs # <<>>)
         => writeReqs[Len(writeReqs)] = bytes_written
    /\ (pc = "read" /\ writeReqs # <<>>)
         => writeReqs[Len(writeReqs)] = bytes_read
    /\ (faults \cap {"write", "short_write"} # {})
         => (/\ Done /\ exitStatus = <<1>>
             /\ Len(writeReqs) = readCalls
             /\ writeReqs[Len(writeReqs)] = bytes_read
             /\ closeCalls = [h \in {"src", "dst"} |-> 1]
             /\ fsExists[dstFile]
             /\ dstFile # srcFile
                  => fsData[dstFile] = CTake(data0[srcFile], dstOff))

\* The write of the second chunk was short, after a complete first chunk.
C10_Witness ==
    /\ Done /\ "short_write" \in faults
    /\ Len(writeReqs) = 2 /\ writeReqs[1] = BUFFER_SIZE
    /\ bytes_written > 0 /\ bytes_written < bytes_read
    /\ dstOff = BUFFER_SIZE + bytes_written
    /\ fsData[dstFile] = CTake(data0[srcFile], dstOff)

====
